---- MODULE Spec2Model ----
(***************************************************************************)
(* Model of the schema migration service (cmd/migration-service/main.go):  *)
(* the script directory, the schema_migrations table, the transactional   *)
(* apply / rollback loops and the request dispatcher.                      *)
(*                                                                         *)
(* Strings are sequences of one-character strings, compared bytewise as   *)
(* Go compares strings.  An error value is a pair <<message, version>>,   *)
(* and <<>> is the nil error (or the empty string).                       *)
(***************************************************************************)
EXTENDS Integers, Sequences, FiniteSets, TLC

\* ------------------------------------------------------------------ bounds
\* The largest steps argument a rollback call is given.
MaxSteps == 4

\* ----------------------------------------------------------------- strings
Dot == <<".">>
Up == <<"u", "p">>
Down == <<"d", "o", "w", "n">>
Sql == <<"s", "q", "l">>
DotSql == Dot \o Sql

\* The byte value of each character the model's file names use.
CharCode(c) ==
  CASE c = "." -> 46
    [] c = "0" -> 48
    [] c = "1" -> 49
    [] c = "2" -> 50
    [] c = "a" -> 97
    [] c = "b" -> 98
    [] c = "d" -> 100
    [] c = "l" -> 108
    [] c = "n" -> 110
    [] c = "o" -> 111
    [] c = "p" -> 112
    [] c = "q" -> 113
    [] c = "s" -> 115
    [] c = "t" -> 116
    [] c = "u" -> 117
    [] c = "w" -> 119
    [] c = "x" -> 120

\* Go's s < t on strings: bytewise lexicographic order, a proper prefix first.
RECURSIVE StrLess(_, _)
StrLess(s, t) ==
  IF t = <<>> THEN FALSE
  ELSE IF s = <<>> THEN TRUE
  ELSE IF Head(s) = Head(t) THEN StrLess(Tail(s), Tail(t))
  ELSE CharCode(Head(s)) < CharCode(Head(t))

\* strings.HasSuffix
HasSuffix(s, suf) ==
  /\ Len(s) >= Len(suf)
  /\ SubSeq(s, Len(s) - Len(suf) + 1, Len(s)) = suf

\* strings.Split(s, "."): the parts between the dots, empty parts included.
RECURSIVE SplitFrom(_, _)
SplitFrom(s, cur) ==
  IF s = <<>> THEN <<cur>>
  ELSE IF Head(s) = "." THEN <<cur>> \o SplitFrom(Tail(s), <<>>)
  ELSE SplitFrom(Tail(s), Append(cur, Head(s)))

Split(s) == SplitFrom(s, <<>>)

\* strings.Join(parts, ".")
RECURSIVE Join(_)
Join(parts) ==
  IF parts = <<>> THEN <<>>
  ELSE IF Len(parts) = 1 THEN parts[1]
  ELSE parts[1] \o Dot \o Join(Tail(parts))

\* strings.TrimPrefix
TrimPrefix(s, pre) ==
  IF Len(s) >= Len(pre) /\ SubSeq(s, 1, Len(pre)) = pre
  THEN SubSeq(s, Len(pre) + 1, Len(s))
  ELSE s

\* ------------------------------------------------------- script directory
V1 == <<"1">>
V10 == <<"1", "0">>
V2 == <<"2">>

FileName(version, name, direction, ext) ==
  version \o Dot \o name \o Dot \o direction \o Dot \o ext

\* The scripts of the three versions: "1" < "10" < "2" as strings.
UpFile(v) == FileName(v, <<"a">>, Up, Sql)
DownFile(v) == FileName(v, <<"a">>, Down, Sql)

ScriptFiles == { UpFile(v) : v \in {V1, V10, V2} } \cup { DownFile(v) : v \in {V1, V10, V2} }

\* A second forward script for version "1".
DuplicateFiles == { FileName(V1, <<"b">>, Up, Sql) }

\* Entries that do not follow <version>.<name>.<direction>.sql: another
\* extension, two parts only, a direction that is neither up nor down.
StrayFiles ==
  { FileName(V2, <<"a">>, Up, <<"t", "x", "t">>),
    Up \o DotSql,
    FileName(V2, <<"a">>, <<"x">>, Sql) }

\* The directories a deployment may install: nothing, one version, all
\* three, all three without the backward script of "10" or of "1", a
\* repeated forward script, and stray entries beside one version.
Releases ==
  { {},
    {UpFile(V10), DownFile(V10)},
    ScriptFiles,
    ScriptFiles \ {DownFile(V10)},
    ScriptFiles \ {DownFile(V1)},
    {UpFile(V1), DownFile(V1)} \cup DuplicateFiles,
    {UpFile(V1), DownFile(V1)} \cup StrayFiles }

\* The body of the filepath.Walk callback for one regular file: whether the
\* file is kept, and the MigrationFile built from its name.
\* IsMigrationFile without the test of the ".sql" suffix.
IsMigrationFileAnySuffix(f) ==
  /\ Len(Split(f)) >= 3
  /\ Split(f)[Len(Split(f)) - 1] \in {Up, Down}

IsMigrationFile(f) ==
  /\ HasSuffix(f, DotSql)
  /\ Len(Split(f)) >= 3
  /\ Split(f)[Len(Split(f)) - 1] \in {Up, Down}

ParseMigrationFile(f) ==
  LET parts == Split(f) IN
  [ Version |-> parts[1],
    Name |-> Join(SubSeq(parts, 2, Len(parts) - 2)),
    Direction |-> parts[Len(parts) - 1],
    FilePath |-> f ]

\* sort.Slice by Version is not stable: every order of the migrations that
\* is nondecreasing in Version is a possible result.
RECURSIVE SortedByVersion(_)
SortedByVersion(ms) ==
  IF ms = {} THEN {<<>>}
  ELSE UNION { { <<m>> \o rest : rest \in SortedByVersion(ms \ {m}) } :
               m \in { x \in ms : \A y \in ms : ~StrLess(y.Version, x.Version) } }

\* loadMigrationFiles: the possible sorted slices for a directory.
loadMigrationFiles(dir) ==
  SortedByVersion({ ParseMigrationFile(f) : f \in { g \in dir : IsMigrationFile(g) } })

\* The map built by `for _, m := range migrations { if m.Direction == d {
\* byVersion[m.Version] = m } }`: a later entry of a version overwrites an
\* earlier one.
RECURSIVE DirectionMap(_, _)
DirectionMap(migrations, d) ==
  IF migrations = <<>> THEN [v \in {} |-> v]
  ELSE LET n == Len(migrations)
           m == migrations[n]
           before == DirectionMap(SubSeq(migrations, 1, n - 1), d)
       IN IF m.Direction = d
          THEN [v \in DOMAIN before \cup {m.Version} |->
                  IF v = m.Version THEN m ELSE before[v]]
          ELSE before

\* sort.Strings on a slice without repeated elements
RECURSIVE SortStrings(_)
SortStrings(S) ==
  IF S = {} THEN <<>>
  ELSE LET least == CHOOSE x \in S : \A y \in S : ~StrLess(y, x)
       IN <<least>> \o SortStrings(S \ {least})

\* sort.Sort(sort.Reverse(sort.StringSlice(...)))
RECURSIVE SortStringsReverse(_)
SortStringsReverse(S) ==
  IF S = {} THEN <<>>
  ELSE LET greatest == CHOOSE x \in S : \A y \in S : ~StrLess(x, y)
       IN <<greatest>> \o SortStringsReverse(S \ {greatest})

\* ------------------------------------------------------------ requests
\* The largest steps field a request body carries (0: the field is absent).
MaxBodySteps == 2

PathPrefix == <<"/", "m", "i", "g", "r", "a", "t", "i", "o", "n", "s", "/">>
CmdMigrate == <<"m", "i", "g", "r", "a", "t", "e">>
CmdRollback == <<"r", "o", "l", "l", "b", "a", "c", "k">>
CmdStatus == <<"s", "t", "a", "t", "u", "s">>
CmdOther == <<"x">>

Paths ==
  { PathPrefix \o CmdMigrate, PathPrefix \o CmdRollback, PathPrefix \o CmdStatus,
    PathPrefix \o CmdOther, PathPrefix, <<"/">> \o CmdMigrate, CmdRollback }

\* An invocation is either a request given to handleRequest, or a call of
\* rollback(migrationsPath, steps) on a service made by NewMigrationService.
HttpCalls ==
  { [via |-> "http", Path |-> pa, Body |-> b, Steps |-> 0] :
      pa \in Paths, b \in {0, MaxBodySteps} }

DirectCalls ==
  { [via |-> "direct", Path |-> <<>>, Body |-> 0, Steps |-> n] : n \in 0..MaxSteps }

Calls == HttpCalls \cup DirectCalls

NoCall == [via |-> "none", Path |-> <<>>, Body |-> 0, Steps |-> 0]

\* Command taking a path without the prefix for a command as well.
CommandTrimSlash(path) ==
  LET command == TrimPrefix(TrimPrefix(path, PathPrefix), <<"/">>) IN
  IF command = <<>> THEN CmdStatus ELSE command

\* handleRequest's command: the path without its prefix, status by default.
Command(path) ==
  LET command == TrimPrefix(path, PathPrefix) IN
  IF command = <<>> \/ command = path THEN CmdStatus ELSE command

\* The engine method an invocation runs, "none" for an unknown command.
Method(c) ==
  IF c.via = "direct" THEN "rollback"
  ELSE IF Command(c.Path) = CmdMigrate THEN "migrate"
  ELSE IF Command(c.Path) = CmdRollback THEN "rollback"
  ELSE IF Command(c.Path) = CmdStatus THEN "status"
  ELSE "none"

\* The steps argument rollback is called with: handleRequest passes 1.
StepsArg(c) == IF c.via = "direct" THEN c.Steps ELSE 1

\* -------------------------------------------------------------- responses
NilError == <<>>

NoResponse ==
  [StatusCode |-> 0, Success |-> FALSE, Message |-> "", AppliedVersions |-> <<>>,
   Error |-> <<>>]

InitFailedResponse(err) ==
  [StatusCode |-> 500, Success |-> FALSE, Message |-> "", AppliedVersions |-> <<>>,
   Error |-> <<"Failed to initialize migration service">> \o err]

\* FailureResponse with the Error field left unset.
FailureResponseNoError(message, err) ==
  [StatusCode |-> 400, Success |-> FALSE, Message |-> message,
   AppliedVersions |-> <<>>, Error |-> <<>>]

FailureResponse(message, err) ==
  [StatusCode |-> 400, Success |-> FALSE, Message |-> message,
   AppliedVersions |-> <<>>, Error |-> err]

SuccessResponse(message, versions) ==
  [StatusCode |-> 200, Success |-> TRUE, Message |-> message,
   AppliedVersions |-> versions, Error |-> <<>>]

FailureMessage(method) ==
  IF method = "migrate" THEN "Migration failed"
  ELSE IF method = "rollback" THEN "Rollback failed"
  ELSE "Failed to get migration status"

SuccessMessage(method) ==
  IF method = "migrate" THEN "Migrations applied successfully"
  ELSE IF method = "rollback" THEN "Rollback completed successfully"
  ELSE "Migration status retrieved successfully"

\* ------------------------------------------------------------------ state
Procs == {"a", "b"}

VARIABLES
  files,        \* the names of the files in the migrations directory
  tableExists,  \* whether schema_migrations has been created
  store,        \* the rows of schema_migrations (versions), by applied_at
  schema,       \* the versions whose forward script's effect is in the database
  pc,           \* where each invocation is
  call,         \* each invocation's input
  applied,      \* the keys of the map getAppliedVersions returned
  plan,         \* the MigrationFiles the loop goes through, in order
  idx,          \* the loop's position in plan
  tx,           \* the open transaction: what it has done so far
  log,          \* what the invocation did to the database, in order
  ret,          \* the error the engine method returned
  resp,         \* the MigrationResponse of handleRequest
  faulted,      \* whether the datastore or the file system failed the invocation
  prev          \* the invocation that ended last

vars ==
  <<files, tableExists, store, schema, pc, call, applied, plan, idx, tx, log, ret,
    resp, faulted, prev>>

NoTx == [open |-> FALSE, ran |-> FALSE, row |-> "none"]

NoPrev == [method |-> "none", ok |-> FALSE, err |-> <<>>, store |-> <<>>]

Rows(st) == { st[i] : i \in 1..Len(st) }

Init ==
  /\ files = {}
  /\ tableExists = FALSE
  /\ store = <<>>
  /\ schema = {}
  /\ pc = [p \in Procs |-> "idle"]
  /\ call = [p \in Procs |-> NoCall]
  /\ applied = [p \in Procs |-> {}]
  /\ plan = [p \in Procs |-> <<>>]
  /\ idx = [p \in Procs |-> 0]
  /\ tx = [p \in Procs |-> NoTx]
  /\ log = [p \in Procs |-> <<>>]
  /\ ret = [p \in Procs |-> NilError]
  /\ resp = [p \in Procs |-> NoResponse]
  /\ faulted = [p \in Procs |-> FALSE]
  /\ prev = NoPrev

\* ------------------------------------------------------- engine and handler
Event(name, version) == <<name, version>>

Logged(p, events) == log' = [log EXCEPT ![p] = log[p] \o events]

\* Returns with the error dropped by handleRequest.
ReturnsUnchecked(p, c, err) ==
  /\ ret' = [ret EXCEPT ![p] = err]
  /\ IF c.via = "http"
     THEN /\ pc' = [pc EXCEPT ![p] = "status"]
          /\ UNCHANGED resp
     ELSE /\ pc' = [pc EXCEPT ![p] = "done"]
          /\ resp' = [resp EXCEPT ![p] = NoResponse]

\* The engine method of invocation p, called as c, returns err: the direct
\* caller has its result; handleRequest answers a failure at once and reads
\* the status after a success.
Returns(p, c, err) ==
  /\ ret' = [ret EXCEPT ![p] = err]
  /\ IF c.via = "http" /\ err = NilError
     THEN /\ pc' = [pc EXCEPT ![p] = "status"]
          /\ UNCHANGED resp
     ELSE /\ pc' = [pc EXCEPT ![p] = "done"]
          /\ resp' = [resp EXCEPT ![p] =
                        IF c.via = "http"
                        THEN FailureResponse(FailureMessage(Method(c)), err)
                        ELSE NoResponse]

\* handleRequest up to the engine call: NewMigrationService (ping, create the
\* tracking table), the command switch, and rollback's check of steps.
Start(p, calls) ==
  /\ pc[p] = "idle"
  /\ \E c \in calls, outcome \in {"ok", "ping", "create"} :
       /\ call' = [call EXCEPT ![p] = c]
       /\ IF outcome # "ok"
          THEN /\ faulted' = [faulted EXCEPT ![p] = TRUE]
               /\ Logged(p, IF outcome = "ping" THEN <<Event("ping", <<>>)>>
                            ELSE <<Event("ping", <<>>), Event("create table", <<>>)>>)
               /\ ret' = [ret EXCEPT ![p] =
                            IF outcome = "ping" THEN <<"failed to ping database">>
                            ELSE <<"failed to create migrations table">>]
               /\ resp' = [resp EXCEPT ![p] =
                             IF c.via = "http" THEN InitFailedResponse(ret'[p])
                             ELSE NoResponse]
               /\ pc' = [pc EXCEPT ![p] = "done"]
               /\ UNCHANGED tableExists
          ELSE /\ tableExists' = TRUE
               /\ Logged(p, <<Event("ping", <<>>), Event("create table", <<>>)>>)
               /\ UNCHANGED faulted
               /\ CASE Method(c) = "none" ->
                         /\ resp' = [resp EXCEPT ![p] =
                                       FailureResponse("Unknown command",
                                         <<"Unknown command", Command(c.Path)>>)]
                         /\ pc' = [pc EXCEPT ![p] = "done"]
                         /\ UNCHANGED ret
                    [] Method(c) = "rollback" /\ StepsArg(c) <= 0 ->
                         Returns(p, c, <<"steps must be greater than 0">>)
                    [] Method(c) = "status" ->
                         /\ pc' = [pc EXCEPT ![p] = "status"]
                         /\ UNCHANGED <<ret, resp>>
                    [] OTHER ->
                         /\ pc' = [pc EXCEPT ![p] = "plan"]
                         /\ UNCHANGED <<ret, resp>>
  /\ UNCHANGED <<files, store, schema, applied, plan, idx, tx, prev>>

\* getAppliedVersions with the rows never scanned.
getAppliedVersionsNone(rows) == {}

\* getAppliedVersions: the keys of the map built from the rows.
getAppliedVersions(rows) == Rows(rows)

\* MigratePlan without the test of `applied`.
MigratePlanAll(migrations, appliedKeys) ==
  LET upMigrations == DirectionMap(migrations, Up)
      versions == SortStrings(DOMAIN upMigrations)
  IN [i \in 1..Len(versions) |-> upMigrations[versions[i]]]

\* MigratePlan keeping only the versions that also have a down migration.
MigratePlanPaired(migrations, appliedKeys) ==
  LET upMigrations == DirectionMap(migrations, Up)
      downMigrations == DirectionMap(migrations, Down)
      versions == SortStrings({ v \in DOMAIN upMigrations :
                                  v \notin appliedKeys /\ v \in DOMAIN downMigrations })
  IN [i \in 1..Len(versions) |-> upMigrations[versions[i]]]

\* MigratePlan refusing the versions below the highest applied one.
MigratePlanAbove(migrations, appliedKeys) ==
  LET upMigrations == DirectionMap(migrations, Up)
      versions == SortStrings({ v \in DOMAIN upMigrations :
                                  /\ v \notin appliedKeys
                                  /\ \A w \in appliedKeys : StrLess(w, v) })
  IN [i \in 1..Len(versions) |-> upMigrations[versions[i]]]

\* MigratePlan going through the pending versions twice.
MigratePlanTwice(migrations, appliedKeys) ==
  LET upMigrations == DirectionMap(migrations, Up)
      versions == SortStrings({ v \in DOMAIN upMigrations : v \notin appliedKeys })
  IN [i \in 1..(2 * Len(versions)) |->
        upMigrations[versions[((i - 1) % Len(versions)) + 1]]]

\* migrate's plan: the versions with an up migration that are not applied,
\* sorted, each with its up migration.
MigratePlan(migrations, appliedKeys) ==
  LET upMigrations == DirectionMap(migrations, Up)
      versions == SortStrings({ v \in DOMAIN upMigrations : v \notin appliedKeys })
  IN [i \in 1..Len(versions) |-> upMigrations[versions[i]]]

\* RollbackLimit clamping one too low.
RollbackLimitShort(steps, n) == IF steps > n THEN n - 1 ELSE steps

\* rollback's limit: steps, or the number of applied versions when smaller.
RollbackLimit(steps, n) == IF steps > n THEN n ELSE steps

\* RollbackPlan with the applied versions in ascending order.
RollbackPlanAscending(migrations, appliedKeys, steps) ==
  LET downMigrations == DirectionMap(migrations, Down)
      appliedVersions == SortStrings(appliedKeys)
  IN [i \in 1..RollbackLimit(steps, Len(appliedVersions)) |->
        IF appliedVersions[i] \in DOMAIN downMigrations
        THEN downMigrations[appliedVersions[i]]
        ELSE [Version |-> appliedVersions[i], Name |-> <<>>, Direction |-> Down,
              FilePath |-> <<>>]]

\* RollbackPlan without the test of `exists`.
RollbackPlanNoLookup(migrations, appliedKeys, steps) ==
  LET appliedVersions == SortStringsReverse(appliedKeys)
  IN [i \in 1..RollbackLimit(steps, Len(appliedVersions)) |->
        [Version |-> appliedVersions[i], Name |-> <<"a">>, Direction |-> Down,
         FilePath |-> DownFile(appliedVersions[i])]]

\* RollbackPlan going through the versions of the directory's down
\* migrations instead of the applied ones.
RollbackPlanCatalog(migrations, appliedKeys, steps) ==
  LET downMigrations == DirectionMap(migrations, Down)
      appliedVersions == SortStringsReverse(DOMAIN downMigrations)
  IN [i \in 1..RollbackLimit(steps, Len(appliedVersions)) |->
        downMigrations[appliedVersions[i]]]

\* rollback's plan: the first `steps` applied versions in reverse order, each
\* with its down migration; FilePath <<>> stands for `exists == false`.
RollbackPlan(migrations, appliedKeys, steps) ==
  LET downMigrations == DirectionMap(migrations, Down)
      appliedVersions == SortStringsReverse(appliedKeys)
  IN [i \in 1..RollbackLimit(steps, Len(appliedVersions)) |->
        IF appliedVersions[i] \in DOMAIN downMigrations
        THEN downMigrations[appliedVersions[i]]
        ELSE [Version |-> appliedVersions[i], Name |-> <<>>, Direction |-> Down,
              FilePath |-> <<>>]]

\* migrate and rollback up to their loop: load the directory, read the
\* applied versions, build the plan; an empty plan returns nil.
Plan(p) ==
  /\ pc[p] = "plan"
  /\ \E migrations \in loadMigrationFiles(files), outcome \in {"ok", "load", "query"} :
       IF outcome = "load"
       THEN /\ Logged(p, <<Event("read files", <<>>)>>)
            /\ faulted' = [faulted EXCEPT ![p] = TRUE]
            /\ Returns(p, call[p], <<"failed to load migration files">>)
            /\ UNCHANGED <<applied, plan, idx>>
       ELSE IF outcome = "query"
       THEN /\ Logged(p, <<Event("read files", <<>>), Event("query", <<>>)>>)
            /\ faulted' = [faulted EXCEPT ![p] = TRUE]
            /\ Returns(p, call[p], <<"failed to get applied versions">>)
            /\ UNCHANGED <<applied, plan, idx>>
       ELSE LET keys == getAppliedVersions(store)
                todo == IF Method(call[p]) = "migrate"
                        THEN MigratePlan(migrations, keys)
                        ELSE RollbackPlan(migrations, keys, StepsArg(call[p]))
            IN /\ Logged(p, <<Event("read files", <<>>), Event("query", <<>>)>>)
               /\ applied' = [applied EXCEPT ![p] = keys]
               /\ plan' = [plan EXCEPT ![p] = todo]
               /\ UNCHANGED faulted
               /\ IF todo = <<>>
                  THEN Returns(p, call[p], NilError) /\ UNCHANGED idx
                  ELSE /\ idx' = [idx EXCEPT ![p] = 1]
                       /\ pc' = [pc EXCEPT ![p] = "begin"]
                       /\ UNCHANGED <<ret, resp>>
  /\ UNCHANGED <<files, tableExists, store, schema, call, tx, prev>>

Current(p) == plan[p][idx[p]]

\* The top of a loop iteration: rollback's lookup of the down migration,
\* then db.Begin.
Begin(p) ==
  /\ pc[p] = "begin"
  /\ LET version == Current(p).Version IN
     IF Method(call[p]) = "rollback" /\ Current(p).FilePath = <<>>
     THEN /\ Returns(p, call[p], <<"down migration not found for version", version>>)
          /\ UNCHANGED <<tx, log, faulted>>
     ELSE \E ok \in BOOLEAN :
            IF ok
            THEN /\ tx' = [tx EXCEPT ![p] = [open |-> TRUE, ran |-> FALSE, row |-> "none"]]
                 /\ Logged(p, <<Event("begin", version)>>)
                 /\ pc' = [pc EXCEPT ![p] = "exec"]
                 /\ UNCHANGED <<ret, resp, faulted>>
            ELSE /\ faulted' = [faulted EXCEPT ![p] = TRUE]
                 /\ Returns(p, call[p], <<"failed to begin transaction", version>>)
                 /\ UNCHANGED <<tx, log>>
  /\ UNCHANGED <<files, tableExists, store, schema, call, applied, plan, idx, prev>>

\* ExecutedSchema for a script run on the connection pool (ms.db.Exec), its
\* effect committed at once.
ExecutedSchemaDirect(sch, method, version) ==
  IF method = "migrate" THEN sch \cup {version} ELSE sch \ {version}

\* ExecutedSchema for a backward script run outside the transaction.
ExecutedSchemaBackward(sch, method, version) ==
  IF method = "rollback" THEN sch \ {version} ELSE sch

\* What the database holds outside the transaction once tx.Exec has run the
\* script: what it held before, the script's effect staying inside the
\* transaction until the commit.
ExecutedSchema(sch, method, version) == sch

\* tx.Exec(migration.Content): the script runs inside the transaction, or
\* the datastore rejects it and the transaction is rolled back.
Exec(p) ==
  /\ pc[p] = "exec"
  /\ LET version == Current(p).Version IN
     \E ok \in BOOLEAN :
       IF ok
       THEN /\ tx' = [tx EXCEPT ![p].ran = TRUE]
            /\ schema' = ExecutedSchema(schema, Method(call[p]), version)
            /\ Logged(p, <<Event("exec", version)>>)
            /\ pc' = [pc EXCEPT ![p] = "record"]
            /\ UNCHANGED <<ret, resp, faulted>>
       ELSE /\ tx' = [tx EXCEPT ![p] = NoTx]
            /\ Logged(p, <<Event("rollback", version)>>)
            /\ faulted' = [faulted EXCEPT ![p] = TRUE]
            /\ Returns(p, call[p], <<"failed to execute", version>>)
            /\ UNCHANGED schema
  /\ UNCHANGED <<files, tableExists, store, call, applied, plan, idx, prev>>

\* RowBusy for an insert that does not wait for the other transaction's
\* uncommitted row.
RowBusyIgnored(p, version, kinds) == FALSE

\* Another open transaction holds an uncommitted change of version's row.
RowBusy(p, version, kinds) ==
  \E q \in Procs \ {p} :
    tx[q].open /\ tx[q].row \in kinds /\ Current(q).Version = version

\* InsertRefused for a table without its primary key.
InsertAccepted(rows, version) == FALSE

\* The primary key of schema_migrations: a version that has a row is refused.
InsertRefused(rows, version) == version \in Rows(rows)

\* The INSERT (migrate) or DELETE (rollback) of the version's row inside the
\* transaction.
Record(p) ==
  /\ pc[p] = "record"
  /\ LET version == Current(p).Version IN
     IF Method(call[p]) = "migrate"
     THEN /\ ~RowBusy(p, version, {"ins", "del"})
          /\ \E ok \in BOOLEAN :
               IF ok /\ ~InsertRefused(store, version)
               THEN /\ tx' = [tx EXCEPT ![p].row = "ins"]
                    /\ Logged(p, <<Event("insert", version)>>)
                    /\ pc' = [pc EXCEPT ![p] = "commit"]
                    /\ UNCHANGED <<ret, resp, faulted>>
               ELSE /\ tx' = [tx EXCEPT ![p] = NoTx]
                    /\ Logged(p, <<Event("rollback", version)>>)
                    /\ faulted' = [faulted EXCEPT ![p] = faulted[p] \/ ~ok]
                    /\ Returns(p, call[p], <<"failed to record migration", version>>)
     ELSE /\ ~RowBusy(p, version, {"del"})
          /\ \E ok \in BOOLEAN :
               IF ok
               THEN /\ tx' = [tx EXCEPT ![p].row =
                                IF version \in Rows(store) THEN "del" ELSE "del0"]
                    /\ Logged(p, <<Event("delete", version)>>)
                    /\ pc' = [pc EXCEPT ![p] = "commit"]
                    /\ UNCHANGED <<ret, resp, faulted>>
               ELSE /\ tx' = [tx EXCEPT ![p] = NoTx]
                    /\ Logged(p, <<Event("rollback", version)>>)
                    /\ faulted' = [faulted EXCEPT ![p] = TRUE]
                    /\ Returns(p, call[p], <<"failed to remove migration record", version>>)
  /\ UNCHANGED <<files, tableExists, store, schema, call, applied, plan, idx, prev>>

\* CommittedStore for a DELETE without its WHERE clause.
CommittedStoreCleared(rows, method, t, version) ==
  IF method = "migrate" THEN Append(rows, version)
  ELSE IF t.row = "del" THEN <<>>
  ELSE rows

\* What a committed transaction leaves in the database.
CommittedStore(rows, method, t, version) ==
  IF method = "migrate" THEN Append(rows, version)
  ELSE IF t.row = "del" THEN SelectSeq(rows, LAMBDA r : r # version)
  ELSE rows

\* CommittedSchema with the backward script's effect lost.
CommittedSchemaKept(sch, method, version) ==
  IF method = "migrate" THEN sch \cup {version} ELSE sch

CommittedSchema(sch, method, version) ==
  IF method = "migrate" THEN sch \cup {version} ELSE sch \ {version}

\* tx.Commit, and the step to the next loop iteration or the return of nil.
\* The script's effect and the row change become visible together at the
\* commit; a commit that fails leaves neither.
Commit(p) ==
  /\ pc[p] = "commit"
  /\ LET version == Current(p).Version IN
     \E ok \in BOOLEAN :
       IF ok
       THEN /\ store' = CommittedStore(store, Method(call[p]), tx[p], version)
            /\ schema' = CommittedSchema(schema, Method(call[p]), version)
            /\ tx' = [tx EXCEPT ![p] = NoTx]
            /\ Logged(p, <<Event("commit", version)>>)
            /\ UNCHANGED faulted
            /\ IF idx[p] < Len(plan[p])
               THEN /\ idx' = [idx EXCEPT ![p] = idx[p] + 1]
                    /\ pc' = [pc EXCEPT ![p] = "begin"]
                    /\ UNCHANGED <<ret, resp>>
               ELSE Returns(p, call[p], NilError) /\ UNCHANGED idx
       ELSE /\ tx' = [tx EXCEPT ![p] = NoTx]
            /\ Logged(p, <<Event("commit failed", version)>>)
            /\ faulted' = [faulted EXCEPT ![p] = TRUE]
            /\ Returns(p, call[p], <<"failed to commit", version>>)
            /\ UNCHANGED <<store, schema, idx>>
  /\ UNCHANGED <<files, tableExists, call, applied, plan, prev>>

\* status without its sort.Strings: the versions as the rows come.
statusUnsorted(rows) == rows

\* status(): the applied versions, sorted.
status(rows) == SortStrings(getAppliedVersions(rows))

\* handleRequest's call of status(): the status command itself, or the
\* `versions, _ := ms.status()` after a successful migrate or rollback.
Status(p) ==
  /\ pc[p] = "status"
  /\ \E ok \in BOOLEAN :
       /\ faulted' = [faulted EXCEPT ![p] = faulted[p] \/ ~ok]
       /\ resp' = [resp EXCEPT ![p] =
            IF ok THEN SuccessResponse(SuccessMessage(Method(call[p])), status(store))
            ELSE IF Method(call[p]) = "status"
            THEN FailureResponse(FailureMessage("status"), <<"query failed">>)
            ELSE SuccessResponse(SuccessMessage(Method(call[p])), <<>>)]
       /\ ret' = [ret EXCEPT ![p] =
            IF ~ok /\ Method(call[p]) = "status" THEN <<"query failed">> ELSE ret[p]]
  /\ Logged(p, <<Event("query", <<>>)>>)
  /\ pc' = [pc EXCEPT ![p] = "done"]
  /\ UNCHANGED <<files, tableExists, store, schema, call, applied, plan, idx, tx, prev>>

\* The invocation ends: the process and everything it held are gone.
Exit(p, last) ==
  /\ pc[p] = "done"
  /\ prev' = last
  /\ pc' = [pc EXCEPT ![p] = "idle"]
  /\ call' = [call EXCEPT ![p] = NoCall]
  /\ applied' = [applied EXCEPT ![p] = {}]
  /\ plan' = [plan EXCEPT ![p] = <<>>]
  /\ idx' = [idx EXCEPT ![p] = 0]
  /\ log' = [log EXCEPT ![p] = <<>>]
  /\ ret' = [ret EXCEPT ![p] = NilError]
  /\ resp' = [resp EXCEPT ![p] = NoResponse]
  /\ faulted' = [faulted EXCEPT ![p] = FALSE]
  /\ UNCHANGED <<files, tableExists, store, schema, tx>>

\* The invocation is terminated from outside (the runtime's timeout, the
\* process killed) wherever it is: it answers nothing, its connection is
\* gone, and the database rolls back the transaction it had open.
Kill(p) ==
  /\ pc[p] # "idle"
  /\ prev' = [method |-> "killed", ok |-> FALSE,
              err |-> IF tx[p].open THEN <<"in transaction">> ELSE <<>>,
              store |-> store]
  /\ tx' = [tx EXCEPT ![p] = NoTx]
  /\ pc' = [pc EXCEPT ![p] = "idle"]
  /\ call' = [call EXCEPT ![p] = NoCall]
  /\ applied' = [applied EXCEPT ![p] = {}]
  /\ plan' = [plan EXCEPT ![p] = <<>>]
  /\ idx' = [idx EXCEPT ![p] = 0]
  /\ log' = [log EXCEPT ![p] = <<>>]
  /\ ret' = [ret EXCEPT ![p] = NilError]
  /\ resp' = [resp EXCEPT ![p] = NoResponse]
  /\ faulted' = [faulted EXCEPT ![p] = FALSE]
  /\ UNCHANGED <<files, tableExists, store, schema>>

\* What is remembered of an invocation that ended: its method, whether it
\* reported success, the error of the engine method, and the rows it left.
Summary(p) ==
  [method |-> Method(call[p]),
   ok |-> IF call[p].via = "http" THEN resp[p].Success ELSE ret[p] = NilError,
   err |-> ret[p],
   store |-> store]

\* A deployment replaces the migrations directory; what ran before it ran
\* with another directory.
Deploy(releases) ==
  /\ \E c \in releases : c # files /\ files' = c
  /\ prev' = NoPrev
  /\ UNCHANGED <<tableExists, store, schema, pc, call, applied, plan, idx, tx, log,
                 ret, resp, faulted>>

AllIdle == \A p \in Procs : pc[p] = "idle"

\* Invocations one after the other, deployments between them.
SeqStart == AllIdle /\ \E p \in Procs : Start(p, Calls)
SeqDeploy == AllIdle /\ Deploy(Releases)
SeqExit == \E p \in Procs : Exit(p, Summary(p))
SeqKill == \E p \in Procs : Kill(p)
Step == \E p \in Procs : Plan(p) \/ Begin(p) \/ Exec(p) \/ Record(p) \/ Commit(p) \/ Status(p)

Next == SeqStart \/ SeqDeploy \/ SeqExit \/ SeqKill \/ Step

Spec == Init /\ [][Next]_vars

\* Invocations that overlap, as concurrent requests make them.
ConcReleases == { {}, {UpFile(V1), DownFile(V1), UpFile(V2), DownFile(V2)} }
ConcCalls ==
  { c \in Calls : c.Body = 0 /\ c.Steps <= 2 /\
      c.Path \in {<<>>, PathPrefix \o CmdMigrate, PathPrefix \o CmdRollback,
                  PathPrefix \o CmdStatus} }
ConcStart == \E p \in Procs : Start(p, ConcCalls)
ConcDeploy == Deploy(ConcReleases)
ConcExit == \E p \in Procs : Exit(p, prev)

ConcNext == ConcStart \/ ConcDeploy \/ ConcExit \/ Step

ConcSpec == Init /\ [][ConcNext]_vars

\* Requests one after the other against a directory of one or two versions,
\* each remembered with the two that ended before it.
TripReleases ==
  { {UpFile(V10), DownFile(V10)},
    {UpFile(V1), DownFile(V1), UpFile(V10), DownFile(V10)} }
TripCalls ==
  { c \in HttpCalls : c.Body = 0 /\
      c.Path \in {PathPrefix \o CmdMigrate, PathPrefix \o CmdRollback} }

\* The invocations that ended since the last deployment, at most the last
\* three, the latest last.
Trail(last) == IF "trail" \in DOMAIN last THEN last.trail ELSE <<>>

TripSummary(p) ==
  LET this == [method |-> Method(call[p]), ok |-> resp[p].Success,
               before |-> applied[p], store |-> store, schema |-> schema]
      older == Trail(prev)
  IN [method |-> this.method, ok |-> this.ok, err |-> ret[p], store |-> store,
      trail |-> Append(IF Len(older) = 3 THEN Tail(older) ELSE older, this)]

TripStart == AllIdle /\ \E p \in Procs : Start(p, TripCalls)
TripDeploy == AllIdle /\ Deploy(TripReleases)
TripExit == \E p \in Procs : Exit(p, TripSummary(p))

TripNext == TripStart \/ TripDeploy \/ TripExit \/ Step

TripSpec == Init /\ [][TripNext]_vars

\* Invocations one after the other, none terminated from outside, each
\* running on when it can: every datastore round-trip returns and the
\* invocation's one thread takes its next step.
LiveStart == AllIdle /\ \E p \in Procs : Start(p, ConcCalls)
LiveDeploy == AllIdle /\ Deploy(ConcReleases)
LiveExit == \E p \in Procs : Exit(p, prev)

LiveNext == LiveStart \/ LiveDeploy \/ LiveExit \/ Step

LiveSpec == Init /\ [][LiveNext]_vars /\ WF_vars(Step)

\* ------------------------------------------------------------ observations
AllVersions == {V1, V10, V2}

\* The version has a forward (backward) script in the directory.
HasForward(dir, v) == \E n \in {<<"a">>, <<"b">>} : FileName(v, n, Up, Sql) \in dir
HasBackward(dir, v) == \E n \in {<<"a">>, <<"b">>} : FileName(v, n, Down, Sql) \in dir

\* The versions of the log's events of one kind, in order.
EventsOf(l, name) ==
  LET sel == SelectSeq(l, LAMBDA e : e[1] = name)
  IN [i \in 1..Len(sel) |-> sel[i][2]]

Positions(l, name) == { k \in 1..Len(l) : l[k][1] = name }

SeqSet(sq) == { sq[i] : i \in 1..Len(sq) }

StrictlyAscending(sq) == \A i \in 1..Len(sq) - 1 : StrLess(sq[i], sq[i + 1])
StrictlyDescending(sq) == \A i \in 1..Len(sq) - 1 : StrLess(sq[i + 1], sq[i])

PlanVersions(p) == [i \in 1..Len(plan[p]) |-> plan[p][i].Version]

\* The invocation has read the directory and the applied versions.
PlanMade(p) ==
  \/ pc[p] \in {"begin", "exec", "record", "commit"}
  \/ /\ pc[p] \in {"status", "done"}
     /\ Event("read files", <<>>) \in SeqSet(log[p])
     /\ ret[p] \notin {<<"failed to load migration files">>,
                       <<"failed to get applied versions">>}

Ended(p) == pc[p] \in {"status", "done"}

\* ----------------------------------------------------------------- claims

\* C1: in one migrate invocation the plan is exactly the versions that have
\* a forward script and were not applied at plan time, in strictly ascending
\* string order; each version runs in a transaction of its own (begin, the
\* script, the insert, commit), and no transaction begins before every lower
\* planned version has committed.
C1_PlanAndOrder ==
  \A p \in Procs :
    (Method(call[p]) = "migrate" /\ PlanMade(p)) =>
      LET l == log[p] IN
      /\ SeqSet(PlanVersions(p)) =
           { v \in AllVersions : HasForward(files, v) /\ v \notin applied[p] }
      /\ applied[p] = Rows(store) \ SeqSet(EventsOf(l, "commit"))
      /\ StrictlyAscending(PlanVersions(p))
      /\ StrictlyAscending(EventsOf(l, "exec"))
      /\ StrictlyAscending(EventsOf(l, "insert"))
      /\ SeqSet(EventsOf(l, "begin")) \subseteq SeqSet(PlanVersions(p))
      /\ \A k \in Positions(l, "begin") :
           \A j \in 1..Len(plan[p]) :
             StrLess(plan[p][j].Version, l[k][2]) =>
               \E m \in 1..(k - 1) : l[m] = Event("commit", plan[p][j].Version)
      /\ \A k \in Positions(l, "commit") :
           /\ k >= 4
           /\ l[k - 3] = Event("begin", l[k][2])
           /\ l[k - 2] = Event("exec", l[k][2])
           /\ l[k - 1] = Event("insert", l[k][2])
      /\ (Ended(p) /\ ret[p] = NilError) =>
           EventsOf(l, "commit") = PlanVersions(p)

\* C1 witness: a migrate invocation that applied three versions.
C1_Witness ==
  \E p \in Procs :
    /\ Method(call[p]) = "migrate" /\ pc[p] = "done" /\ ret[p] = NilError
    /\ EventsOf(log[p], "commit") = <<V1, V10, V2>>
    /\ store = <<V1, V10, V2>>

\* C2: a rollback invocation goes through the applied versions in strictly
\* descending string order, reverting only the highest ones, at most `steps`
\* of them, and leaves every other applied version in the store; when it
\* returns nil it has reverted min(steps, applied) versions, and with "1",
\* "10", "2" applied and steps = 2 it reverts "2", then "10", and leaves
\* exactly "1".
C2_RollbackOrder ==
  \A p \in Procs :
    (Method(call[p]) = "rollback" /\ PlanMade(p)) =>
      LET begun == EventsOf(log[p], "begin")
          reverted == EventsOf(log[p], "commit")
          n == StepsArg(call[p])
      IN
      /\ StrictlyDescending(begun)
      /\ SeqSet(begun) \subseteq applied[p]
      /\ Len(begun) <= n
      /\ \A i \in 1..Len(begun) :
           \A w \in applied[p] :
             StrLess(begun[i], w) =>
               \E j \in 1..Len(reverted) : j < i /\ reverted[j] = w
      /\ Rows(store) = applied[p] \ SeqSet(reverted)
      /\ (Ended(p) /\ ret[p] = NilError) =>
           Len(reverted) = IF n < Cardinality(applied[p]) THEN n
                           ELSE Cardinality(applied[p])
      /\ (Ended(p) /\ ret[p] = NilError /\ n = 2 /\ applied[p] = {V1, V10, V2}) =>
           reverted = <<V2, V10>> /\ store = <<V1>>

\* C2 witness: rollback with steps = 2 of three applied versions has ended.
C2_Witness ==
  \E p \in Procs :
    /\ Method(call[p]) = "rollback" /\ StepsArg(call[p]) = 2 /\ pc[p] = "done"
    /\ ret[p] = NilError
    /\ applied[p] = {V1, V10, V2}
    /\ EventsOf(log[p], "commit") = <<V2, V10>>
    /\ store = <<V1>>

\* C3: when the forward script of a planned version fails, the invocation
\* has committed exactly the planned versions before it (rows and effects),
\* has rolled back the failing version's transaction, leaving neither its row
\* nor its effect, has begun no transaction for a later version, and reports
\* failure; a status that follows returns exactly the rows that invocation
\* left.
C3_PartialFailure ==
  /\ \A p \in Procs :
       ( /\ Method(call[p]) = "migrate" /\ pc[p] = "done"
         /\ ret[p] # NilError /\ ret[p][1] = "failed to execute" ) =>
         \E k \in 1..Len(plan[p]) :
           LET v == plan[p][k].Version
               before == SubSeq(PlanVersions(p), 1, k - 1)
           IN
           /\ ret[p] = <<"failed to execute", v>>
           /\ EventsOf(log[p], "commit") = before
           /\ EventsOf(log[p], "begin") = SubSeq(PlanVersions(p), 1, k)
           /\ log[p][Len(log[p])] = Event("rollback", v)
           /\ Event("insert", v) \notin SeqSet(log[p])
           /\ Rows(store) = applied[p] \cup SeqSet(before)
           /\ schema = Rows(store)
           /\ v \notin Rows(store) /\ v \notin schema
           /\ call[p].via = "http" => (~resp[p].Success /\ resp[p].Error = ret[p])
  /\ \A p \in Procs :
       ( /\ Method(call[p]) = "status" /\ pc[p] = "done" /\ resp[p].Success
         /\ prev.method = "migrate"
         /\ prev.err # NilError /\ prev.err[1] = "failed to execute" ) =>
         /\ StrictlyAscending(resp[p].AppliedVersions)
         /\ SeqSet(resp[p].AppliedVersions) = Rows(prev.store)

\* C3 witness: with "1", "10", "2" pending the script of "10" failed, and
\* the status after it has answered.
C3_Witness ==
  \E p \in Procs :
    /\ Method(call[p]) = "status" /\ pc[p] = "done" /\ resp[p].Success
    /\ prev.method = "migrate" /\ prev.err = <<"failed to execute", V10>>
    /\ prev.store = <<V1>>
    /\ HasForward(files, V2)
    /\ resp[p].AppliedVersions = <<V1>>

\* The transaction about to commit has run its script and changed its row.
CommittingWhole(p) ==
  /\ pc[p] = "commit" /\ tx[p].open /\ tx[p].ran
  /\ tx[p].row = IF Method(call[p]) = "migrate" THEN "ins" ELSE "del"

\* C4: with invocations one after the other, a version has a row in the
\* store exactly when its forward script's effect is in the database, and
\* the store and the effects change only by the commit of a transaction that
\* ran the version's script and changed the version's row.
C4_Atomicity ==
  /\ [](Rows(store) = schema)
  /\ [][ (store' # store \/ schema' # schema) =>
           \E p \in Procs :
             /\ CommittingWhole(p)
             /\ LET v == Current(p).Version IN
                IF Method(call[p]) = "migrate"
                THEN /\ Rows(store') = Rows(store) \cup {v} /\ v \notin Rows(store)
                     /\ schema' = schema \cup {v}
                ELSE /\ Rows(store') = Rows(store) \ {v} /\ v \in Rows(store)
                     /\ schema' = schema \ {v} ]_vars

\* C4 witness: a rollback has committed and left a lower version applied.
C4_Witness ==
  /\ prev.method = "rollback" /\ prev.ok
  /\ store = <<V1>> /\ schema = {V1}
  /\ AllIdle

\* The invocation opened no transaction and ran no script.
NothingExecuted(p) ==
  \A k \in 1..Len(log[p]) :
    log[p][k][1] \notin {"begin", "exec", "insert", "delete", "commit", "rollback"}

\* A migrate request that follows a successful migrate request, the
\* directory unchanged and the datastore answering.
SecondApply(p) ==
  /\ Method(call[p]) = "migrate" /\ call[p].via = "http" /\ pc[p] = "done"
  /\ prev.method = "migrate" /\ prev.ok
  /\ ~faulted[p]

\* C5 as stated: the second of two migrate requests in a row executes
\* nothing, leaves the store as it was, and answers success with an empty
\* applied_versions list.
C5_EmptyList ==
  \A p \in Procs :
    SecondApply(p) =>
      /\ NothingExecuted(p)
      /\ store = prev.store
      /\ resp[p].Success
      /\ resp[p].AppliedVersions = <<>>

\* C5 amended: the second of two migrate requests in a row executes nothing,
\* leaves the store and the effects as they were, and answers success with
\* the list of all applied versions, in ascending order.
C5_Idempotent ==
  \A p \in Procs :
    SecondApply(p) =>
      /\ NothingExecuted(p)
      /\ plan[p] = <<>>
      /\ store = prev.store
      /\ schema = Rows(prev.store)
      /\ resp[p].Success /\ resp[p].StatusCode = 200 /\ resp[p].Error = <<>>
      /\ StrictlyAscending(resp[p].AppliedVersions)
      /\ SeqSet(resp[p].AppliedVersions) = Rows(store)
      /\ \A v \in AllVersions : HasForward(files, v) => v \in Rows(store)

\* C5 witness: the second migrate request has answered, three versions
\* being applied.
C5_Witness ==
  \E p \in Procs :
    /\ SecondApply(p)
    /\ store = <<V1, V10, V2>>
    /\ resp[p].AppliedVersions = <<V1, V10, V2>>

\* The invocation is between its reading of the directory and the applied
\* versions and the end of its loop.
InFlight(p) ==
  /\ Method(call[p]) \in {"migrate", "rollback"}
  /\ pc[p] \in {"plan", "begin", "exec", "record", "commit"}

\* C6: at most one migrate or rollback invocation is in flight at a time.
C6_MutualExclusion == Cardinality({ p \in Procs : InFlight(p) }) <= 1

\* C7: no version has two rows in the store, whatever the interleaving of
\* the invocations.
C7_UniqueVersions ==
  \A i, j \in 1..Len(store) : i # j => store[i] # store[j]

\* C7 witness: the primary key has refused the insert of a version that
\* another invocation had recorded meanwhile.
C7_Witness ==
  \E p \in Procs :
    /\ pc[p] = "done" /\ ~faulted[p]
    /\ ret[p] = <<"failed to record migration", V1>>
    /\ V1 \in Rows(store)

\* The directory holds two forward scripts of one version.
DuplicateForward(dir) ==
  \E v \in AllVersions :
    FileName(v, <<"a">>, Up, Sql) \in dir /\ FileName(v, <<"b">>, Up, Sql) \in dir

\* C8: with two forward scripts of one version in the directory, migrate
\* fails before it opens a transaction or runs a script, and the store is
\* what it was.
C8_DuplicateRejected ==
  \A p \in Procs :
    (Method(call[p]) = "migrate" /\ DuplicateForward(files)) =>
      /\ NothingExecuted(p)
      /\ pc[p] \in {"status", "done"} => (pc[p] = "done" /\ ret[p] # NilError)

\* The applied versions a rollback selects: the `steps` highest.
Selected(p) ==
  { w \in applied[p] :
      Cardinality({ u \in applied[p] : StrLess(w, u) }) < StepsArg(call[p]) }

\* C9: a rollback begins no transaction for a version without a backward
\* script; when the highest selected version without one is v (and the
\* datastore answers), the rollback fails with the error naming v, v and
\* every lower applied version keep their rows and effects and are not
\* touched, and every higher applied version is rolled back.
C9_MissingDown ==
  \A p \in Procs :
    (Method(call[p]) = "rollback" /\ PlanMade(p)) =>
      /\ \A v \in SeqSet(EventsOf(log[p], "begin")) : HasBackward(files, v)
      /\ (Ended(p) /\ ~faulted[p]) =>
           \A v \in Selected(p) :
             ( /\ ~HasBackward(files, v)
               /\ \A w \in Selected(p) : StrLess(v, w) => HasBackward(files, w) ) =>
               /\ ret[p] = <<"down migration not found for version", v>>
               /\ call[p].via = "http" =>
                    (pc[p] = "done" /\ ~resp[p].Success /\ resp[p].Error = ret[p])
               /\ \A w \in applied[p] :
                    IF StrLess(v, w)
                    THEN /\ w \notin Rows(store) /\ w \notin schema
                         /\ Event("commit", w) \in SeqSet(log[p])
                    ELSE /\ w \in Rows(store) /\ w \in schema
                         /\ \A k \in 1..Len(log[p]) : log[p][k][2] # w

\* C9 witness: rollback with steps = 3 of "1", "10", "2" without a backward
\* script for "10" has ended.
C9_Witness ==
  \E p \in Procs :
    /\ Method(call[p]) = "rollback" /\ StepsArg(call[p]) = 3 /\ pc[p] = "done"
    /\ applied[p] = {V1, V10, V2}
    /\ ~HasBackward(files, V10)
    /\ ret[p] = <<"down migration not found for version", V10>>
    /\ EventsOf(log[p], "commit") = <<V2>>
    /\ store = <<V1, V10>>

\* C10: a rollback with steps above the number of applied versions, each of
\* them with a backward script and the datastore answering, reverts them
\* all, leaves the store empty and returns nil; with nothing applied it
\* executes nothing.
C10_RollbackBoundary ==
  \A p \in Procs :
    ( /\ Method(call[p]) = "rollback" /\ PlanMade(p) /\ Ended(p) /\ ~faulted[p]
      /\ StepsArg(call[p]) > Cardinality(applied[p])
      /\ \A v \in applied[p] : HasBackward(files, v) ) =>
      /\ ret[p] = NilError
      /\ store = <<>> /\ schema = {}
      /\ SeqSet(EventsOf(log[p], "commit")) = applied[p]
      /\ Len(EventsOf(log[p], "exec")) = Cardinality(applied[p])
      /\ applied[p] = {} => NothingExecuted(p)
      /\ (call[p].via = "http" /\ pc[p] = "done") => resp[p].Success

\* C10 witness: rollback with steps = 3 of two applied versions has ended.
C10_Witness ==
  \E p \in Procs :
    /\ Method(call[p]) = "rollback" /\ StepsArg(call[p]) = 3 /\ pc[p] = "done"
    /\ Cardinality(applied[p]) = 2
    /\ ret[p] = NilError
    /\ Len(EventsOf(log[p], "commit")) = 2
    /\ store = <<>>

\* The steps a rollback request asks for: the steps field of its body, 1
\* when the body has none.
RequestedSteps(c) == IF c.Body = 0 THEN 1 ELSE c.Body

\* C11: a rollback request that carries steps = n and ends with success (the
\* datastore answering) has reverted min(n, applied) versions; one that
\* carries no steps has reverted exactly one when a version was applied.
C11_StepsHonoured ==
  \A p \in Procs :
    ( /\ Method(call[p]) = "rollback" /\ call[p].via = "http"
      /\ pc[p] = "done" /\ resp[p].Success /\ ~faulted[p] ) =>
      LET n == RequestedSteps(call[p])
          k == Cardinality(applied[p])
      IN Len(EventsOf(log[p], "commit")) = IF n < k THEN n ELSE k

\* C12: every version a rollback reverts is, at the moment it is reverted,
\* the version that was applied last among those in the store.
C12_MostRecent ==
  \A p \in Procs :
    (Method(call[p]) = "rollback" /\ CommittingWhole(p)) =>
      Current(p).Version = store[Len(store)]

\* C13: a rollback with steps <= 0 ends with the error about steps, having
\* done nothing to the datastore or the directory: no ping, no creation of
\* the tracking table, no read of the directory or of the applied versions,
\* no script, no write.
C13_InvalidBeforeAccess ==
  \A p \in Procs :
    (Method(call[p]) = "rollback" /\ StepsArg(call[p]) <= 0 /\ pc[p] = "done") =>
      /\ ret[p] = <<"steps must be greater than 0">>
      /\ log[p] = <<>>

\* C14: a request with an unknown command is answered with the
\* unknown-command failure, having done nothing to the datastore or the
\* directory.
C14_UnknownUntouched ==
  \A p \in Procs :
    (call[p].via = "http" /\ Method(call[p]) = "none" /\ pc[p] = "done") =>
      /\ resp[p] = FailureResponse("Unknown command",
                                   <<"Unknown command", Command(call[p].Path)>>)
      /\ log[p] = <<>>

\* The last three requests were a migrate, a rollback and a migrate, each
\* answered with success, and the first applied exactly one version.
RoundTrip(t) ==
  /\ Len(t) = 3
  /\ t[1].method = "migrate" /\ t[2].method = "rollback" /\ t[3].method = "migrate"
  /\ t[1].ok /\ t[2].ok /\ t[3].ok
  /\ Cardinality(Rows(t[1].store) \ t[1].before) = 1

\* C15: after a migrate that applied the one pending version v1, a rollback
\* and a second migrate, the store and the effects are those the first
\* migrate left (the versions applied before it and v1), and after the
\* rollback v1 had neither its row nor its effect.
C15_RoundTrip ==
  LET t == Trail(prev) IN
  RoundTrip(t) =>
    LET v1 == CHOOSE v \in Rows(t[1].store) : v \notin t[1].before IN
    /\ Rows(t[1].store) = t[1].before \cup {v1} /\ v1 \in t[1].schema
    /\ v1 \notin Rows(t[2].store) /\ v1 \notin t[2].schema
    /\ Rows(t[3].store) = Rows(t[1].store) /\ t[3].schema = t[1].schema

\* C16: whatever the point at which an invocation is terminated, a version
\* has its row in the store exactly when its script's effect is in the
\* database, and the termination of an invocation inside a transaction
\* leaves the store and the effects as they were before that transaction
\* and no transaction open.
C16_KillAtomic ==
  /\ [](\A v \in AllVersions : v \in Rows(store) <=> v \in schema)
  /\ [][ \A p \in Procs :
           (pc[p] # "idle" /\ pc'[p] = "idle" /\ prev'.method = "killed") =>
             /\ store' = store /\ schema' = schema
             /\ ~tx'[p].open ]_vars

\* C16 witness: an invocation was terminated inside a transaction, "1"
\* being applied and "10" not.
C16_Witness ==
  /\ prev.method = "killed" /\ prev.err = <<"in transaction">>
  /\ AllIdle
  /\ store = <<V1>> /\ schema = {V1}
  /\ HasForward(files, V10)

\* C17: when a migrate or rollback request fails at a version after earlier
\* versions of the same request committed, the response reports failure
\* with the error naming that version, and lists the versions that
\* committed in this request.
C17_FailureReport ==
  \A p \in Procs :
    ( /\ call[p].via = "http" /\ Method(call[p]) \in {"migrate", "rollback"}
      /\ pc[p] = "done" /\ ret[p] # NilError /\ Len(ret[p]) = 2
      /\ EventsOf(log[p], "commit") # <<>> ) =>
      /\ ~resp[p].Success
      /\ resp[p].Error = ret[p]
      /\ SeqSet(EventsOf(log[p], "commit")) \subseteq SeqSet(resp[p].AppliedVersions)

\* C18: a request during which a datastore operation or the reading of the
\* directory failed is answered with success = false and an error.
C18_NoSwallow ==
  \A p \in Procs :
    (call[p].via = "http" /\ pc[p] = "done" /\ faulted[p]) =>
      /\ ~resp[p].Success
      /\ resp[p].Error # <<>>

\* The invocation that ended last, the directory unchanged since, was a
\* call of the method that failed at a version.
FailedAt(method) ==
  prev.method = method /\ ~prev.ok /\ Len(prev.err) = 2

\* C19: a migrate that follows a migrate which failed at version v runs the
\* forward script of no version that has a row in the store, and its first
\* transaction is for v; a rollback that follows a rollback which failed at
\* v runs the backward script only of versions that have a row, and its first
\* transaction is for v.
C19_RetrySafe ==
  \A p \in Procs :
    /\ (Method(call[p]) = "migrate" /\ PlanMade(p) /\ FailedAt("migrate")) =>
         /\ SeqSet(EventsOf(log[p], "exec")) \cap Rows(prev.store) = {}
         /\ applied[p] = Rows(prev.store)
         /\ plan[p] # <<>> /\ plan[p][1].Version = prev.err[2]
         /\ EventsOf(log[p], "begin") # <<>> =>
              EventsOf(log[p], "begin")[1] = prev.err[2]
    /\ (Method(call[p]) = "rollback" /\ PlanMade(p) /\ FailedAt("rollback")) =>
         /\ SeqSet(EventsOf(log[p], "exec")) \subseteq Rows(prev.store)
         /\ applied[p] = Rows(prev.store)
         /\ plan[p] # <<>> /\ plan[p][1].Version = prev.err[2]
         /\ EventsOf(log[p], "begin") # <<>> =>
              EventsOf(log[p], "begin")[1] = prev.err[2]

\* C19 witness: the migrate before failed at "10" with "1" committed, and
\* this one applied "10" and "2".
C19_Witness ==
  \E p \in Procs :
    /\ Method(call[p]) = "migrate" /\ pc[p] = "done" /\ ret[p] = NilError
    /\ FailedAt("migrate") /\ prev.err = <<"failed to execute", V10>>
    /\ prev.store = <<V1>>
    /\ EventsOf(log[p], "exec") = <<V10, V2>>
    /\ store = <<V1, V10, V2>>

\* C20: a status request that succeeds answers the versions that have a row
\* in the store, each once, in ascending string order, and no step of a
\* status request changes the rows of the store or the effects of the
\* scripts.
C20_StatusReadOnly ==
  /\ [](\A p \in Procs :
          (Method(call[p]) = "status" /\ pc[p] = "done" /\ resp[p].Success) =>
            /\ StrictlyAscending(resp[p].AppliedVersions)
            /\ SeqSet(resp[p].AppliedVersions) = Rows(store)
            /\ Len(resp[p].AppliedVersions) = Len(store))
  /\ [][ \A p \in Procs :
           ( \/ call[p].via = "http" /\ Method(call[p]) = "status"
             \/ call'[p].via = "http" /\ Method(call'[p]) = "status" ) =>
             store' = store /\ schema' = schema ]_vars

\* C20 witness: a status request has answered "1", "10" for a store whose
\* rows came in the order "10", "1".
C20_Witness ==
  \E p \in Procs :
    /\ Method(call[p]) = "status" /\ pc[p] = "done" /\ resp[p].Success
    /\ store = <<V10, V1>>
    /\ resp[p].AppliedVersions = <<V1, V10>>

\* C21: in every response of handleRequest the error is set exactly when
\* success is false, and success is false exactly when the engine (its
\* construction or the method the command names) returned an error or the
\* command is unknown.
C21_ErrorIffFailure ==
  \A p \in Procs :
    (call[p].via = "http" /\ pc[p] = "done") =>
      /\ (resp[p].Error # <<>>) <=> ~resp[p].Success
      /\ ~resp[p].Success <=> (ret[p] # NilError \/ Method(call[p]) = "none")

\* C21 witness: a migrate request has failed at "10" and answered the error.
C21_Witness ==
  \E p \in Procs :
    /\ call[p].via = "http" /\ Method(call[p]) = "migrate" /\ pc[p] = "done"
    /\ ret[p] = <<"failed to execute", V10>>
    /\ ~resp[p].Success /\ resp[p].Error = ret[p]

\* The errors of a transaction step of rollback: the backward script, the
\* delete of the row, the commit.
TxErrors == {"failed to execute", "failed to remove migration record", "failed to commit"}

\* C22: when the backward script, the delete or the commit of a selected
\* version v fails, the rollback has reverted exactly the selected versions
\* above v, v keeps its row and its effect, no transaction was begun for a
\* version below v, and the failure is returned.
C22_RollbackFailure ==
  \A p \in Procs :
    ( /\ Method(call[p]) = "rollback" /\ pc[p] = "done"
      /\ ret[p] # NilError /\ ret[p][1] \in TxErrors ) =>
      \E k \in 1..Len(plan[p]) :
        LET v == plan[p][k].Version
            before == SubSeq(PlanVersions(p), 1, k - 1)
        IN
        /\ ret[p][2] = v
        /\ EventsOf(log[p], "commit") = before
        /\ EventsOf(log[p], "begin") = SubSeq(PlanVersions(p), 1, k)
        /\ \A i \in 1..Len(before) : StrLess(v, before[i])
        /\ Rows(store) = applied[p] \ SeqSet(before)
        /\ schema = Rows(store)
        /\ v \in Rows(store) /\ v \in schema
        /\ \A w \in applied[p] :
             StrLess(w, v) => \A j \in 1..Len(log[p]) : log[p][j][2] # w
        /\ call[p].via = "http" => (~resp[p].Success /\ resp[p].Error = ret[p])

\* C22 witness: a rollback of three versions reverted "2" and failed at the
\* delete of the row of "10".
C22_Witness ==
  \E p \in Procs :
    /\ Method(call[p]) = "rollback" /\ pc[p] = "done"
    /\ applied[p] = {V1, V10, V2} /\ StepsArg(call[p]) = 3
    /\ ret[p] = <<"failed to remove migration record", V10>>
    /\ EventsOf(log[p], "commit") = <<V2>>
    /\ store = <<V1, V10>> /\ schema = {V1, V10}

\* C23: with a version that has a forward script and no backward script in
\* the directory, a migrate (the datastore answering) returns nil with every
\* forward version applied; a rollback (the datastore answering) fails
\* exactly when one of the versions it selects has no backward script, with
\* the error naming such a version, and returns nil otherwise.
C23_MissingBackwardLate ==
  \A p \in Procs :
    ( /\ PlanMade(p) /\ Ended(p) /\ ~faulted[p]
      /\ \E v \in AllVersions : HasForward(files, v) /\ ~HasBackward(files, v) ) =>
      /\ Method(call[p]) = "migrate" =>
           /\ ret[p] = NilError
           /\ \A v \in AllVersions : HasForward(files, v) => v \in Rows(store)
      /\ Method(call[p]) = "rollback" =>
           /\ ret[p] = NilError <=> \A v \in Selected(p) : HasBackward(files, v)
           /\ ret[p] # NilError =>
                /\ ret[p][1] = "down migration not found for version"
                /\ ret[p][2] \in Selected(p) /\ ~HasBackward(files, ret[p][2])

\* C23 witness: "1" has no backward script; a rollback of the two highest
\* of three applied versions has returned nil.
C23_Witness ==
  \E p \in Procs :
    /\ Method(call[p]) = "rollback" /\ pc[p] = "done" /\ ret[p] = NilError
    /\ HasForward(files, V1) /\ ~HasBackward(files, V1)
    /\ applied[p] = {V1, V10, V2} /\ StepsArg(call[p]) = 2
    /\ store = <<V1>>

Commits(p) ==
  /\ pc[p] = "commit"
  /\ Len(log'[p]) = Len(log[p]) + 1
  /\ log'[p][Len(log'[p])][1] = "commit"

\* C25: whatever the interleaving of the invocations, a migrate transaction
\* that ran the forward script of v commits only while v has no row in the
\* store, and its commit gives v its one row; of two migrates that planned
\* the same version, the one whose insert the primary key refuses commits
\* nothing for it.
C25_ForwardOnce ==
  /\ [][ \A p \in Procs :
           (Method(call[p]) = "migrate" /\ Commits(p)) =>
             /\ Current(p).Version \notin Rows(store)
             /\ store' = Append(store, Current(p).Version)
             /\ \A q \in Procs \ {p} :
                  ~(tx[q].open /\ tx[q].row = "ins" /\
                    Current(q).Version = Current(p).Version) ]_vars
  /\ [](\A p \in Procs :
          ( /\ Method(call[p]) = "migrate" /\ pc[p] = "done" /\ ret[p] # NilError
            /\ ret[p][1] = "failed to record migration" ) =>
            Event("commit", ret[p][2]) \notin SeqSet(log[p]))

\* C25 witness: two migrates planned "1"; one committed it, the other's
\* insert was refused by the primary key.
C25_Witness ==
  \E p, q \in Procs :
    /\ p # q
    /\ Method(call[p]) = "migrate" /\ Method(call[q]) = "migrate"
    /\ V1 \notin applied[p] /\ V1 \notin applied[q]
    /\ PlanMade(p) /\ PlanMade(q)
    /\ Event("commit", V1) \in SeqSet(log[p])
    /\ Event("exec", V1) \in SeqSet(log[q])
    /\ pc[q] = "done" /\ ~faulted[q]
    /\ ret[q] = <<"failed to record migration", V1>>

\* C26: a rollback transaction commits only if its DELETE removed the row
\* of its version.
C26_RollbackOnce ==
  [][ \A p \in Procs :
       (Method(call[p]) = "rollback" /\ Commits(p)) =>
         /\ tx[p].row = "del"
         /\ Current(p).Version \in Rows(store) ]_vars

\* C27: a migrate plans every version that has a forward script and no row,
\* also below a version that has a row, and when it returns nil (invocations
\* one after the other) every version with a forward script has a row.
C27_AllForwardApplied ==
  \A p \in Procs :
    (Method(call[p]) = "migrate" /\ PlanMade(p)) =>
      /\ \A v \in AllVersions :
           (HasForward(files, v) /\ v \notin applied[p]) =>
             v \in SeqSet(PlanVersions(p))
      /\ (Ended(p) /\ ret[p] = NilError) =>
           \A v \in AllVersions : HasForward(files, v) => v \in Rows(store)

\* C27 witness: with "10" applied, a migrate has applied "1" and "2".
C27_Witness ==
  \E p \in Procs :
    /\ Method(call[p]) = "migrate" /\ pc[p] = "done" /\ ret[p] = NilError
    /\ applied[p] = {V10}
    /\ store = <<V10, V1, V2>>

\* C28: every change of the store is the commit of one invocation: of a
\* migrate, which adds the row of a version of its plan that it had not
\* read as applied and keeps every other row; or of a rollback, which
\* removes the row of one of the `steps` highest versions it had read as
\* applied and keeps every other row.
C28_Frame ==
  [][ store' # store =>
        \E p \in Procs :
          /\ Commits(p)
          /\ LET v == Current(p).Version IN
             IF Method(call[p]) = "migrate"
             THEN /\ store' = Append(store, v)
                  /\ v \in SeqSet(PlanVersions(p)) /\ v \notin applied[p]
             ELSE /\ Method(call[p]) = "rollback"
                  /\ store' = SelectSeq(store, LAMBDA r : r # v)
                  /\ v \in Selected(p)
                  /\ Len(store') = Len(store) - 1 ]_vars

\* C28 witness: a rollback with steps = 1 has removed the row of "2" and
\* left those of "1" and "10".
C28_Witness ==
  \E p \in Procs :
    /\ Method(call[p]) = "rollback" /\ StepsArg(call[p]) = 1 /\ pc[p] = "done"
    /\ applied[p] = {V1, V10, V2}
    /\ EventsOf(log[p], "commit") = <<V2>>
    /\ store = <<V1, V10>>

\* The path starts with the prefix.
HasPrefix(path, pre) ==
  Len(path) >= Len(pre) /\ \A i \in 1..Len(pre) : path[i] = pre[i]

Running(p) == pc[p] \in {"plan", "begin", "exec", "record", "commit", "status"}

\* The number of transactions the invocation may open: the versions with a
\* forward script and no row for migrate, the smaller of steps and the
\* number of rows for rollback.
MaxTransactions(p) ==
  IF Method(call[p]) = "migrate"
  THEN Cardinality({ v \in AllVersions : HasForward(files, v) /\ v \notin applied[p] })
  ELSE IF StepsArg(call[p]) < Cardinality(applied[p])
       THEN StepsArg(call[p]) ELSE Cardinality(applied[p])

\* C30: with every datastore round-trip returning, an invocation that runs
\* ends with a result; a migrate opens at most as many transactions as there
\* are pending versions, a rollback at most min(steps, applied), no version
\* has two transactions in one invocation, and once the engine method has
\* returned an error the invocation does nothing more.
C30_Terminates ==
  /\ \A p \in Procs : Running(p) ~> (pc[p] = "done")
  /\ [](\A p \in Procs :
          (Method(call[p]) \in {"migrate", "rollback"} /\ PlanMade(p)) =>
            LET begun == EventsOf(log[p], "begin") IN
            /\ Len(begun) <= MaxTransactions(p)
            /\ \A i, j \in 1..Len(begun) : i # j => begun[i] # begun[j]
            /\ ret[p] # NilError => pc[p] = "done")
  /\ [][ \A p \in Procs :
           ret[p] # NilError => (log'[p] = log[p] \/ pc'[p] = "idle") ]_vars

\* C30 witness: a migrate with two pending versions has ended after two
\* transactions.
C30_Witness ==
  \E p \in Procs :
    /\ Method(call[p]) = "migrate" /\ pc[p] = "done" /\ ret[p] = NilError
    /\ applied[p] = {}
    /\ EventsOf(log[p], "begin") = <<V1, V2>>
    /\ store = <<V1, V2>>

====
